---------------------------- MODULE Spec2Model ----------------------------
(***************************************************************************)
(* Model of the payment roster loader (PaymentsExcelLoader), the members   *)
(* kicker (MembersKicker) and the username filter (MembersUsernameGetter)  *)
(* of telegram_payment_bot.                                                *)
(*                                                                         *)
(* Text is a sequence of one-character strings, so that strip() and        *)
(* strptime() are computed on the characters.  A numeric cell is a whole   *)
(* number of days plus a number of seconds into the day (the fractional    *)
(* part of the Excel serial).                                              *)
(***************************************************************************)
EXTENDS Integers, Sequences, FiniteSets, TLC

VARIABLES
    \* ---- PaymentsExcelLoader, one call at a time
    pc,                 \* "idle", "loading", "returned", "raised"
    api,                \* the public method called, with its argument
    source,             \* what open_workbook met: "open" or "unavailable"
    nrows,              \* sheet.nrows of the opened sheet (header included)
    i,                  \* loop variable of __LoadSheet
    rows,               \* the non-header rows read so far (history)
    payments_data,      \* PaymentsData being built: sequence of records
    payments_data_err,  \* PaymentsDataErrors being built: sequence of entries
    logger,             \* levels of the events logged by the call
    opens,              \* xlrd.open_workbook calls made by the call
    result,             \* value handed to the caller
    \* ---- the loader seen by a caller across calls and file changes
    file,               \* current content of the payment file
    obsRoster,          \* last roster the caller got from LoadAll
    rosterSrc,          \* content of the file when that LoadAll ran
    obsErrors,          \* last errors the caller got from CheckForErrors
    errorsSrc,          \* content of the file when that CheckForErrors ran
    obsSingle,          \* last value the caller got from LoadSingleByUsername
    \* ---- MembersKicker
    kpc,                \* "idle", "kick", "sleep", "returned", "raised"
    kop,                \* the kick operation running
    test_mode,          \* BotConfigTypes.APP_TEST_MODE
    roster,             \* payments seen by the payment getter
    chat,               \* snapshot of the chat members at call time
    targets,            \* members handed to __KickMultiple / __KickSingle
    k,                  \* position of the for loop in targets
    calls,              \* calls made to BanHelper.KickUser and time.sleep
    kicked,             \* ids removed from the chat by the client
    kresult,            \* value returned by the kick operation
    \* ---- expiration cell parsing, both stages side by side
    numCell, strCell, numRes, strRes,
    \* ---- the configuration being loaded: the three column selectors
    cfgpc,              \* "loading", "loaded", "rejected"
    config,             \* Config: the value set for each column selector
    lastCheck           \* the last call of AreColumnIndexesValid

loaderVars == <<pc, api, source, nrows, i, rows, payments_data, payments_data_err,
                logger, opens, result>>
apiVars    == <<file, obsRoster, rosterSrc, obsErrors, errorsSrc, obsSingle>>
kickerVars == <<kpc, kop, test_mode, roster, chat, targets, k, calls, kicked,
                kresult>>
dateVars   == <<numCell, strCell, numRes, strRes>>
configVars == <<cfgpc, config, lastCheck>>
vars       == <<loaderVars, apiVars, kickerVars, dateVars, configVars>>

None == "None"          \* no exception, no call, nothing yet
NoValue == <<>>         \* nothing was handed to the caller
Returned(v) == <<v>>    \* the value handed to the caller
Nothing == <<>>         \* an Optional that is None
Some(v) == <<v>>        \* an Optional that holds v

-----------------------------------------------------------------------------
(* Bounds of the model                                                     *)

MaxRows == 2            \* non-header rows of a sheet
MaxMembers == 3         \* members of a chat snapshot
MaxSerial == 62         \* largest in-range date serial drawn for a cell

-----------------------------------------------------------------------------
(* str.strip()                                                             *)

IsSpace(c) == c = " "

RECURSIVE LStrip(_)
LStrip(s) == IF s # <<>> /\ IsSpace(Head(s)) THEN LStrip(Tail(s)) ELSE s

RECURSIVE RStrip(_)
RStrip(s) ==
    IF s # <<>> /\ IsSpace(s[Len(s)]) THEN RStrip(SubSeq(s, 1, Len(s) - 1))
    ELSE s

Strip(s) == RStrip(LStrip(s))

-----------------------------------------------------------------------------
(* datetime: proleptic Gregorian ordinals                                  *)

IsLeap(y) == y % 4 = 0 /\ (y % 100 # 0 \/ y % 400 = 0)

DaysInMonth(y, m) ==
    IF m = 2 THEN (IF IsLeap(y) THEN 29 ELSE 28)
    ELSE IF m \in {4, 6, 9, 11} THEN 30 ELSE 31

DaysBeforeYear(y) ==
    LET p == y - 1 IN p * 365 + (p \div 4) - (p \div 100) + (p \div 400)

RECURSIVE DaysBeforeMonth(_, _)
DaysBeforeMonth(y, m) ==
    IF m = 1 THEN 0 ELSE DaysBeforeMonth(y, m - 1) + DaysInMonth(y, m - 1)

Ymd2Ord(y, m, d) == DaysBeforeYear(y) + DaysBeforeMonth(y, m) + d

RECURSIVE MonthOf(_, _, _)
\* the month holding day-of-year n (0-based) of year y, searching from month m
MonthOf(y, m, n) ==
    IF n < DaysBeforeMonth(y, m) + DaysInMonth(y, m) THEN m
    ELSE MonthOf(y, m + 1, n)

Ord2Ymd(ord) ==
    LET n0   == ord - 1
        n400 == n0 \div 146097
        r400 == n0 % 146097
        n100 == r400 \div 36524
        r100 == r400 % 36524
        n4   == r100 \div 1461
        r4   == r100 % 1461
        n1   == r4 \div 365
        r1   == r4 % 365
        year == n400 * 400 + 1 + n100 * 100 + n4 * 4 + n1
    IN  IF n1 = 4 \/ n100 = 4
        THEN [y |-> year - 1, m |-> 12, d |-> 31]
        ELSE LET mm == MonthOf(year, 1, r1)
             IN  [y |-> year, m |-> mm, d |-> r1 - DaysBeforeMonth(year, mm) + 1]


MAXORDINAL == Ymd2Ord(9999, 12, 31)     \* date.max.toordinal()

-----------------------------------------------------------------------------
(* Cells of the sheet.  xlrd gives a float for a number or date cell and a *)
(* str for a text cell.                                                    *)

NumCell(days, secs) == [t |-> "num", days |-> days, secs |-> secs]
StrCell(s) == [t |-> "str", s |-> s]

\* str(cell_value): only text cells are drawn for email and username
Str(cell) == cell.s

Digits == {"0", "1", "2", "3", "4", "5", "6", "7", "8", "9"}

DigitVal(c) ==
    CASE c = "0" -> 0 [] c = "1" -> 1 [] c = "2" -> 2 [] c = "3" -> 3
      [] c = "4" -> 4 [] c = "5" -> 5 [] c = "6" -> 6 [] c = "7" -> 7
      [] c = "8" -> 8 [] c = "9" -> 9

RECURSIVE NumVal(_)
NumVal(f) ==
    IF f = <<>> THEN 0
    ELSE NumVal(SubSeq(f, 1, Len(f) - 1)) * 10 + DigitVal(f[Len(f)])

RECURSIVE SplitSlash(_, _)
\* the fields of s between "/" characters; cur is the field being read
SplitSlash(s, cur) ==
    IF s = <<>> THEN <<cur>>
    ELSE IF Head(s) = "/" THEN <<cur>> \o SplitSlash(Tail(s), <<>>)
    ELSE SplitSlash(Tail(s), Append(cur, Head(s)))

AllDigits(f) == \A j \in 1..Len(f) : f[j] \in Digits

\* a datetime: calendar date and seconds into the day
DateTime(date, secs) == [date |-> date, secs |-> secs]

\* variant for comparison: strptime reading the month before the day
StrptimeSwapped(s) ==
    LET f == SplitSlash(s, <<>>)
    IN  IF Len(f) # 3 THEN [exc |-> "ValueError"]
        ELSE IF ~(AllDigits(f[1]) /\ AllDigits(f[2]) /\ AllDigits(f[3]))
        THEN [exc |-> "ValueError"]
        ELSE IF ~(Len(f[1]) \in 1..2 /\ Len(f[2]) \in 1..2 /\ Len(f[3]) = 4)
        THEN [exc |-> "ValueError"]
        ELSE LET d == NumVal(f[2])
                 m == NumVal(f[1])
                 y == NumVal(f[3])
             IN  IF d \in 1..31 /\ m \in 1..12 /\ y >= 1
                    /\ d <= DaysInMonth(y, m)
                 THEN [exc |-> None,
                       dt |-> DateTime([y |-> y, m |-> m, d |-> d], 0)]
                 ELSE [exc |-> "ValueError"]

\* datetime.strptime(s, "%d/%m/%Y"), the default PAYMENT_DATE_FORMAT:
\* %d is 1 or 2 digits in 1..31, %m 1 or 2 digits in 1..12, %Y 4 digits;
\* the whole string must match and the date must exist.
Strptime(s) ==
    LET f == SplitSlash(s, <<>>)
    IN  IF Len(f) # 3 THEN [exc |-> "ValueError"]
        ELSE IF ~(AllDigits(f[1]) /\ AllDigits(f[2]) /\ AllDigits(f[3]))
        THEN [exc |-> "ValueError"]
        ELSE IF ~(Len(f[1]) \in 1..2 /\ Len(f[2]) \in 1..2 /\ Len(f[3]) = 4)
        THEN [exc |-> "ValueError"]
        ELSE LET d == NumVal(f[1])
                 m == NumVal(f[2])
                 y == NumVal(f[3])
             IN  IF d \in 1..31 /\ m \in 1..12 /\ y >= 1
                    /\ d <= DaysInMonth(y, m)
                 THEN [exc |-> None,
                       dt |-> DateTime([y |-> y, m |-> m, d |-> d], 0)]
                 ELSE [exc |-> "ValueError"]

\* variant for comparison: xldate_as_datetime with the one epoch
\* 1899-12-30 for every serial
XldateAsDatetimeOneEpoch(cell) ==
    IF cell.t = "str" THEN [exc |-> "TypeError"]
    ELSE LET ord == Ymd2Ord(1899, 12, 30) + cell.days
         IN  IF ord < 1 \/ ord > MAXORDINAL THEN [exc |-> "OverflowError"]
             ELSE [exc |-> None, dt |-> DateTime(Ord2Ymd(ord), cell.secs)]

\* xlrd.xldate_as_datetime(xldate, 0): comparing a str with 60 is a
\* TypeError; the epoch is 1899-12-31 below serial 60 and 1899-12-30 from
\* 60 on (the 1900 leap year of the date system); epoch + timedelta(days)
\* outside date.min..date.max is an OverflowError.
XldateAsDatetime(cell) ==
    IF cell.t = "str" THEN [exc |-> "TypeError"]
    ELSE LET epoch == IF cell.days < 60 THEN Ymd2Ord(1899, 12, 31)
                      ELSE Ymd2Ord(1899, 12, 30)
             ord == epoch + cell.days
         IN  IF ord < 1 \/ ord > MAXORDINAL THEN [exc |-> "OverflowError"]
             ELSE [exc |-> None, dt |-> DateTime(Ord2Ymd(ord), cell.secs)]


-----------------------------------------------------------------------------
(* PaymentsData and PaymentsDataErrors                                     *)

SinglePayment(email, username, expiration) ==
    [email |-> email, username |-> username, expiration |-> expiration]

IsUsernameExistent(data, username) ==
    \E j \in 1..Len(data) : data[j].username = username

\* PaymentsData.AddPayment: False, and nothing stored, when the username is
\* already there
PaymentsData_AddPayment(data, email, username, expiration) ==
    IF IsUsernameExistent(data, username)
    THEN [ok |-> FALSE, data |-> data]
    ELSE [ok |-> TRUE,
          data |-> Append(data, SinglePayment(email, username, expiration))]

\* PaymentsData.GetByUsername
GetByUsername(data, username) ==
    IF IsUsernameExistent(data, username)
    THEN Some(data[CHOOSE j \in 1..Len(data) : data[j].username = username])
    ELSE Nothing

INVALID_DATE_ERR == "InvalidDate"
DUPLICATED_USERNAME_ERR == "DuplicateUsername"

\* PaymentsDataErrors.AddPaymentError
AddPaymentError(err, kind, row, username, raw) ==
    Append(err, [kind |-> kind, row |-> row, username |-> username,
                 raw |-> raw])

-----------------------------------------------------------------------------
(* PaymentsExcelLoader                                                     *)

\* the state of one __LoadSheet run; exc is the exception leaving it
LoadState(data, err, log, exc) ==
    [data |-> data, err |-> err, log |-> log, exc |-> exc]

\* variant for comparison: the row of an error entry taken as row_idx itself
RowNumberZeroBased(row_idx) == row_idx

\* the row an error entry names: row_idx + 1
RowNumber(row_idx) == row_idx + 1

\* __AddPayment, the two stages of the parse: the numeric serial first, the
\* configured format when xlrd raises TypeError (the cell is a str)
\* (stage tells which of the two produced the outcome)
Staged(outcome, stage) ==
    IF outcome.exc = None
    THEN [exc |-> None, dt |-> outcome.dt, stage |-> stage]
    ELSE [exc |-> outcome.exc, stage |-> stage]

\* variant for comparison: the two stages with the text read month first
ParseExpirationMonthFirst(expiration) ==
    LET first == XldateAsDatetime(expiration)
    IN  IF first.exc = "TypeError"
        THEN Staged(StrptimeSwapped(Strip(expiration.s)), "strptime")
        ELSE Staged(first, "xldate")

ParseExpiration(expiration) ==
    LET first == XldateAsDatetime(expiration)
    IN  IF first.exc = "TypeError"
        THEN Staged(Strptime(Strip(expiration.s)), "strptime")
        ELSE Staged(first, "xldate")

\* variant for comparison: the ValueError left uncaught
OnInvalidDateEscapes(row_idx, st, username, expiration) ==
    LoadState(st.data, st.err, st.log, "ValueError")

\* __AddPayment, except ValueError: warn, record the error, return
OnInvalidDate(row_idx, st, username, expiration) ==
    LoadState(st.data,
              AddPaymentError(st.err, INVALID_DATE_ERR, RowNumber(row_idx),
                              username, Some(expiration)),
              Append(st.log, "warning"), None)

\* variant for comparison: the False of AddPayment ignored
AddDataSilentDuplicate(row_idx, st, email, username, expiration_datetime) ==
    LET added == PaymentsData_AddPayment(st.data, email, username,
                                         expiration_datetime)
    IN  LoadState(added.data, st.err, Append(st.log, "debug"), None)

\* __AddPayment, "Add data": the record, or the error when AddPayment
\* returns False
AddData(row_idx, st, email, username, expiration_datetime) ==
    LET added == PaymentsData_AddPayment(st.data, email, username,
                                         expiration_datetime)
    IN  IF added.ok
        THEN LoadState(added.data, st.err, Append(st.log, "debug"), None)
        ELSE LoadState(added.data,
                       AddPaymentError(st.err, DUPLICATED_USERNAME_ERR,
                                       RowNumber(row_idx), username, Nothing),
                       Append(st.log, "warning"), None)

\* variant for comparison: no return after the InvalidDate entry, the row is
\* also added with a date of its own
AddPaymentNoReturn(row_idx, st, email, username, expiration) ==
    LET parsed == ParseExpiration(expiration)
    IN  IF parsed.exc = "ValueError"
        THEN AddData(row_idx,
                     OnInvalidDate(row_idx, st, username, expiration),
                     email, username,
                     DateTime([y |-> 1900, m |-> 1, d |-> 1], 0))
        ELSE IF parsed.exc # None
        THEN LoadState(st.data, st.err, st.log, parsed.exc)
        ELSE AddData(row_idx, st, email, username, parsed.dt)

\* __AddPayment; an exception other than the two caught leaves it
AddPayment(row_idx, st, email, username, expiration) ==
    LET parsed == ParseExpiration(expiration)
    IN  IF parsed.exc = "ValueError"
        THEN OnInvalidDate(row_idx, st, username, expiration)
        ELSE IF parsed.exc # None
        THEN LoadState(st.data, st.err, st.log, parsed.exc)
        ELSE AddData(row_idx, st, email, username, parsed.dt)

\* variant for comparison: the loop iteration without strip()
LoadRowNoStrip(idx, st, row) ==
    IF idx > 0
    THEN LET email == Str(row.email)
             username == Str(row.username)
             expiration == row.expiration
         IN  IF username # <<>>
             THEN AddPayment(idx, st, email, username, expiration)
             ELSE st
    ELSE st

\* __LoadSheet, one iteration of the loop on sheet row idx; row holds the
\* three cells sheet.cell_value gives for the configured columns
LoadRow(idx, st, row) ==
    IF idx > 0
    THEN LET email == Strip(Str(row.email))
             username == Strip(Str(row.username))
             expiration == row.expiration
         IN  IF username # <<>>
             THEN AddPayment(idx, st, email, username, expiration)
             ELSE st
    ELSE st

RECURSIVE LoadRows(_, _, _)
\* the loop of __LoadSheet from sheet row idx on; an exception ends it
LoadRows(sheet, idx, st) ==
    IF idx >= Len(sheet) \/ st.exc # None THEN st
    ELSE LoadRows(sheet, idx + 1, LoadRow(idx, st, sheet[idx + 1]))

\* __LoadSheet: sheet is the sequence of rows, the header first
LoadSheet(sheet, log) == LoadRows(sheet, 0, LoadState(<<>>, <<>>, log, None))

Unavailable == "unavailable"

\* the payment file: a workbook with its first sheet, or nothing readable
UnavailableFile == [ok |-> FALSE]
Workbook(sheet) == [ok |-> TRUE, sheet |-> sheet]

\* __LoadAndCheckAll on a file: the pair on success, the exception otherwise
LoadAndCheckAll(f) ==
    IF ~f.ok
    THEN LoadState(NoValue, NoValue, <<"info", "exception">>, "IOError")
    ELSE LET st == LoadSheet(f.sheet, <<"info">>)
         IN  IF st.exc # None
             THEN LoadState(NoValue, NoValue, Append(st.log, "exception"),
                            st.exc)
             ELSE LoadState(st.data, st.err, Append(st.log, "info"), None)

\* the value each public method makes of the pair
Project(a, data, err) ==
    CASE a.name = "LoadAll" -> data
      [] a.name = "LoadSingleByUsername" -> GetByUsername(data, a.username)
      [] a.name = "CheckForErrors" -> err

-----------------------------------------------------------------------------
(* Inputs of the loader                                                    *)

UsernameCells ==
    {StrCell(<<" ">>), StrCell(<<"a">>), StrCell(<<" ", "a", " ">>),
     StrCell(<<"b">>)}

EmailCells == {StrCell(<<"x">>), StrCell(<<"y", " ">>)}

ValidText == <<" ", "2", "/", "3", "/", "1", "9", "0", "0">>
InvalidText == <<"3", "1", "/", "0", "2", "/", "1", "9", "0", "0", " ">>

ExpirationCells ==
    {NumCell(61, 0), StrCell(ValidText), StrCell(InvalidText),
     NumCell(MAXORDINAL, 0)}

Rows == [email : EmailCells, username : UsernameCells,
         expiration : ExpirationCells]

Header == [email |-> StrCell(<<"e">>), username |-> StrCell(<<"u">>),
           expiration |-> StrCell(<<"x">>)]

Apis == {[name |-> "LoadAll"], [name |-> "CheckForErrors"],
         [name |-> "LoadSingleByUsername", username |-> <<"a">>]}

LoaderInit ==
    /\ pc = "idle" /\ api = [name |-> None] /\ source = None /\ nrows = 0
    /\ i = 0 /\ rows = <<>>
    /\ payments_data = <<>> /\ payments_data_err = <<>>
    /\ logger = <<>> /\ opens = 0 /\ result = NoValue

ApiIdle ==
    /\ file = UnavailableFile /\ obsRoster = NoValue /\ rosterSrc = Nothing
    /\ obsErrors = NoValue /\ errorsSrc = Nothing /\ obsSingle = NoValue

KickerIdle ==
    /\ kpc = "idle" /\ kop = [name |-> None, bulk |-> FALSE, user |-> Nothing]
    /\ test_mode = FALSE /\ roster = <<>>
    /\ chat = <<>> /\ targets = <<>> /\ k = 0 /\ calls = <<>>
    /\ kicked = {} /\ kresult = NoValue

DateIdle ==
    /\ numCell = NumCell(0, 0) /\ strCell = StrCell(<<>>)
    /\ numRes = Nothing /\ strRes = Nothing

\* the three column selectors, in the order of PaymentBotConfigCfg
ColTypes ==
    <<"PAYMENT_EMAIL_COL", "PAYMENT_USERNAME_COL", "PAYMENT_EXPIRATION_COL">>

ColTypeSet == {ColTypes[j] : j \in 1..Len(ColTypes)}

\* a Config in which no column selector is set
EmptyConfig == [t \in ColTypeSet |-> Nothing]

ConfigIdle ==
    /\ cfgpc = "loading" /\ config = EmptyConfig /\ lastCheck = Nothing

\* variant for comparison: the exception logged and an empty value returned
RaiseSwallowed(log) ==
    [pc |-> "returned", logger |-> Append(log, "exception"),
     result |-> Returned(<<>>)]

\* __LoadAndCheckAll, except Exception: log the exception and raise again
Raise(log) ==
    [pc |-> "raised", logger |-> Append(log, "exception"), result |-> NoValue]

\* a public method is called and the workbook cannot be opened
CallOpenFails(a) ==
    /\ pc = "idle"
    /\ api' = a
    /\ opens' = opens + 1
    /\ LET h == Raise(<<"info">>)
       IN  pc' = h.pc /\ logger' = h.logger /\ result' = h.result
    /\ source' = Unavailable
    /\ UNCHANGED <<nrows, i, rows, payments_data, payments_data_err>>
    /\ UNCHANGED <<apiVars, kickerVars, dateVars, configVars>>

\* a public method is called and the sheet, of n rows, is opened
CallOpenOk(a, n) ==
    /\ pc = "idle"
    /\ pc' = "loading"
    /\ api' = a
    /\ logger' = <<"info">>
    /\ opens' = opens + 1
    /\ source' = "open"
    /\ nrows' = n
    /\ i' = 0
    /\ rows' = <<>>
    /\ payments_data' = <<>>
    /\ payments_data_err' = <<>>
    /\ UNCHANGED result
    /\ UNCHANGED <<apiVars, kickerVars, dateVars, configVars>>

\* iteration 0 of the loop: the header
SkipHeader ==
    /\ pc = "loading" /\ i = 0 /\ i < nrows
    /\ i' = i + 1
    /\ UNCHANGED <<pc, api, source, nrows, rows, payments_data,
                   payments_data_err, logger, opens, result>>
    /\ UNCHANGED <<apiVars, kickerVars, dateVars, configVars>>

\* iteration i > 0 of the loop, on a row the sheet holds there
ReadRow(row) ==
    /\ pc = "loading" /\ 0 < i /\ i < nrows
    /\ LET st == LoadRow(i, LoadState(payments_data, payments_data_err,
                                      logger, None), row)
       IN  /\ rows' = Append(rows, row)
           /\ IF st.exc # None
              THEN /\ LET h == Raise(st.log)
                      IN  /\ pc' = h.pc
                          /\ logger' = h.logger
                          /\ result' = h.result
                   /\ UNCHANGED <<i, payments_data, payments_data_err>>
              ELSE /\ payments_data' = st.data
                   /\ payments_data_err' = st.err
                   /\ logger' = st.log
                   /\ i' = i + 1
                   /\ UNCHANGED <<pc, result>>
    /\ UNCHANGED <<api, source, nrows, opens>>
    /\ UNCHANGED <<apiVars, kickerVars, dateVars, configVars>>

\* the loop is over: __LoadAndCheckAll returns the pair, the method its part
Finish ==
    /\ pc = "loading" /\ i >= nrows
    /\ pc' = "returned"
    /\ logger' = Append(logger, "info")
    /\ result' = Returned(Project(api, payments_data, payments_data_err))
    /\ UNCHANGED <<api, source, nrows, i, rows, payments_data,
                   payments_data_err, opens>>
    /\ UNCHANGED <<apiVars, kickerVars, dateVars, configVars>>

\* the caller has the value or the exception; the loader keeps nothing
Done ==
    /\ pc \in {"returned", "raised"}
    /\ pc' = "idle" /\ api' = [name |-> None] /\ source' = None /\ nrows' = 0 /\ i' = 0
    /\ rows' = <<>>
    /\ payments_data' = <<>> /\ payments_data_err' = <<>>
    /\ logger' = <<>> /\ opens' = 0 /\ result' = NoValue
    /\ UNCHANGED <<apiVars, kickerVars, dateVars, configVars>>

LoaderNext ==
    \/ \E a \in Apis : CallOpenFails(a)
    \/ \E a \in Apis, n \in 0..(MaxRows + 1) : CallOpenOk(a, n)
    \/ SkipHeader
    \/ \E row \in Rows : ReadRow(row)
    \/ Finish
    \/ Done

Init == LoaderInit /\ ApiIdle /\ KickerIdle /\ DateIdle /\ ConfigIdle

Spec == Init /\ [][LoaderNext]_vars

-----------------------------------------------------------------------------
(* The loader across calls: every public method parses the file as it is   *)
(* when the method is called; the file may change between the calls.       *)

\* LoadAll: __LoadAndCheckAll()[0]
LoadAll(f) ==
    LET st == LoadAndCheckAll(f)
    IN  IF st.exc # None THEN NoValue ELSE Returned(st.data)

\* variant for comparison: CheckForErrors returning an empty error list
CheckForErrorsOfNothing(f) ==
    LET st == LoadAndCheckAll(f)
    IN  IF st.exc # None THEN NoValue ELSE Returned(<<>>)

\* CheckForErrors: __LoadAndCheckAll()[1]
CheckForErrors(f) ==
    LET st == LoadAndCheckAll(f)
    IN  IF st.exc # None THEN NoValue ELSE Returned(st.err)

\* LoadSingleByUsername: LoadAll().GetByUsername(username)
LoadSingleByUsername(f, username) ==
    LET all == LoadAll(f)
    IN  IF all = NoValue THEN NoValue
        ELSE Returned(GetByUsername(all[1], username))

\* the rows a file is made of: one that parses, and one of the same username
\* whose expiration does not
FileRows ==
    {[email |-> StrCell(<<"x">>), username |-> StrCell(<<"a">>),
      expiration |-> NumCell(61, 0)],
     [email |-> StrCell(<<"y", " ">>), username |-> StrCell(<<" ", "a", " ">>),
      expiration |-> StrCell(InvalidText)]}

Files ==
    {Workbook(<<Header>> \o body) :
        body \in UNION {[1..n -> FileRows] : n \in 0..MaxRows}}

ApiInit ==
    /\ file \in Files \cup {UnavailableFile}
    /\ obsRoster = NoValue /\ rosterSrc = Nothing
    /\ obsErrors = NoValue /\ errorsSrc = Nothing
    /\ obsSingle = NoValue

\* the payment file is replaced, or removed
ChangeFile(f) ==
    /\ file' = f
    /\ UNCHANGED <<obsRoster, rosterSrc, obsErrors, errorsSrc, obsSingle>>
    /\ UNCHANGED <<loaderVars, kickerVars, dateVars, configVars>>

CallLoadAll ==
    /\ obsRoster' = LoadAll(file)
    /\ rosterSrc' = IF obsRoster' = NoValue THEN Nothing ELSE Some(file)
    /\ UNCHANGED <<file, obsErrors, errorsSrc, obsSingle>>
    /\ UNCHANGED <<loaderVars, kickerVars, dateVars, configVars>>

CallCheckForErrors ==
    /\ obsErrors' = CheckForErrors(file)
    /\ errorsSrc' = IF obsErrors' = NoValue THEN Nothing ELSE Some(file)
    /\ UNCHANGED <<file, obsRoster, rosterSrc, obsSingle>>
    /\ UNCHANGED <<loaderVars, kickerVars, dateVars, configVars>>

CallLoadSingleByUsername(username) ==
    /\ obsSingle' = LoadSingleByUsername(file, username)
    /\ UNCHANGED <<file, obsRoster, rosterSrc, obsErrors, errorsSrc>>
    /\ UNCHANGED <<loaderVars, kickerVars, dateVars, configVars>>

ApiNext ==
    \/ \E f \in Files \cup {UnavailableFile} : ChangeFile(f)
    \/ CallLoadAll
    \/ CallCheckForErrors
    \/ \E u \in {<<"a">>, <<"b">>} : CallLoadSingleByUsername(u)

ApiSpecInit ==
    ApiInit /\ LoaderInit /\ KickerIdle /\ DateIdle /\ ConfigIdle

ApiSpec == ApiSpecInit /\ [][ApiNext]_vars


-----------------------------------------------------------------------------
(* MembersKicker.  A chat member is [user, valid]: user is an Optional     *)
(* [id, username], username an Optional text; valid is what                *)
(* MemberHelper.IsValidMember says of the member.                          *)

SLEEP_TIME_MS == 10     \* MembersKickerConst.SLEEP_TIME_SEC, in milliseconds

Today == Ymd2Ord(2024, 1, 10)

\* MemberHelper.IsValidMember
IsValidMember(member) == member.valid

RECURSIVE FilterMembers(_, _)
\* ChatMembersGetter.FilterMembers: the members of the chat passing the
\* filter, in the order of the chat; accepted holds the members the filter
\* function is true of
FilterMembers(members, accepted) ==
    IF members = <<>> THEN <<>>
    ELSE (IF Head(members) \in accepted THEN <<Head(members)>> ELSE <<>>)
         \o FilterMembers(Tail(members), accepted)

\* ChatMembersList.Any
ChatMembersList_Any(members) == members # <<>>

\* the lambda of MembersUsernameGetter.GetAllWithNoUsername
HasNoUsername(member) ==
    /\ IsValidMember(member)
    /\ member.user # Nothing
    /\ member.user[1].username = Nothing

\* MembersUsernameGetter.GetAllWithNoUsername
GetAllWithNoUsername(members) ==
    FilterMembers(members,
                  {members[j] : j \in {q \in 1..Len(members) :
                                           HasNoUsername(members[q])}})

\* the payment of a username in the roster: absent counts as expired, a
\* payment is expired when its expiration is before today
IsExpiredByUsername(ros, username) ==
    \/ username = Nothing
    \/ ~\E j \in 1..Len(ros) : ros[j].username = username[1]
    \/ \E j \in 1..Len(ros) :
          ros[j].username = username[1] /\ ros[j].expiration < Today

\* MembersPaymentGetter.GetAllMembersWithExpiredPayment
GetAllMembersWithExpiredPayment(members, ros) ==
    LET Expired(member) ==
            /\ IsValidMember(member)
            /\ member.user # Nothing
            /\ IsExpiredByUsername(ros, member.user[1].username)
    IN  FilterMembers(members,
                      {members[j] : j \in {q \in 1..Len(members) :
                                               Expired(members[q])}})

\* MembersPaymentGetter.IsSingleMemberExpired
IsSingleMemberExpired(ros, user) == IsExpiredByUsername(ros, user.username)

MemberKinds ==
    {[hasUser |-> FALSE, username |-> Nothing, valid |-> TRUE]} \cup
    {[hasUser |-> TRUE, username |-> u, valid |-> v] :
        u \in {Nothing, Some(<<"a">>)}, v \in BOOLEAN}

\* the member at place j of the chat has user id j
Snapshot(kinds) ==
    [j \in 1..Len(kinds) |->
        [user |-> IF kinds[j].hasUser
                  THEN Some([id |-> j, username |-> kinds[j].username])
                  ELSE Nothing,
         valid |-> kinds[j].valid]]

Snapshots ==
    {Snapshot(kinds) : kinds \in UNION {[1..n -> MemberKinds] : n \in 0..MaxMembers}}

Rosters ==
    {<<>>} \cup
    {<<[username |-> <<"a">>, expiration |-> e]>> : e \in {Today - 1, Today}}

\* the user handed to a single kick is a user of the chat
UsersOf(snap) == {j \in 1..Len(snap) : snap[j].user # Nothing}

Call(fn, arg, ok) == [fn |-> fn, arg |-> arg, ok |-> ok]

\* variant for comparison: __KickMultiple without the test mode check
KickMultipleIgnoringTestMode(tm, members) ==
    IF members # <<>> THEN [kpc |-> "kick", calls |-> <<>>]
    ELSE [kpc |-> "returned", calls |-> <<>>]

\* __KickMultiple on entry: the for loop unless test mode is on, else the
\* "Test mode ON" log; the value is where the call stands next
KickMultiple(tm, members) ==
    IF ~tm
    THEN IF members # <<>> THEN [kpc |-> "kick", calls |-> <<>>]
         ELSE [kpc |-> "returned", calls |-> <<>>]
    ELSE [kpc |-> "returned", calls |-> <<Call("info", 0, TRUE)>>]

\* variant for comparison: __KickSingle that never calls KickUser
KickSingleNoKick(tm) == [kpc |-> "returned", calls |-> <<>>]

\* __KickSingle on entry
KickSingle(tm) ==
    IF ~tm THEN [kpc |-> "kick", calls |-> <<>>]
    ELSE [kpc |-> "returned", calls |-> <<Call("info", 0, TRUE)>>]

Skip == [kpc |-> "returned", calls |-> <<>>]

\* a kick operation starts: what it selected, where it stands, its value
\* when it is already over
Enter(name, user, tm, ros, snap, selected, entered, value) ==
    /\ kop' = [name |-> name, bulk |-> user = Nothing, user |-> user]
    /\ test_mode' = tm
    /\ roster' = ros
    /\ chat' = snap
    /\ targets' = selected
    /\ k' = 1
    /\ kpc' = entered.kpc
    /\ calls' = entered.calls
    /\ kresult' = IF entered.kpc = "returned" THEN Returned(value) ELSE NoValue
    /\ UNCHANGED kicked
    /\ UNCHANGED <<loaderVars, apiVars, dateVars, configVars>>

KickAllWithExpiredPayment ==
    /\ kpc = "idle"
    /\ \E tm \in BOOLEAN, ros \in Rosters, snap \in Snapshots :
          LET no_payment_members == GetAllMembersWithExpiredPayment(snap, ros)
          IN  Enter("KickAllWithExpiredPayment", Nothing, tm, ros, snap,
                    no_payment_members,
                    IF ChatMembersList_Any(no_payment_members)
                    THEN KickMultiple(tm, no_payment_members) ELSE Skip,
                    no_payment_members)

KickSingleIfExpiredPayment ==
    /\ kpc = "idle"
    /\ \E tm \in BOOLEAN, ros \in Rosters, snap \in Snapshots :
          \E j \in UsersOf(snap) :
              LET payment_expired ==
                      IsSingleMemberExpired(ros, snap[j].user[1])
              IN  Enter("KickSingleIfExpiredPayment", snap[j].user, tm, ros,
                        snap,
                        IF payment_expired THEN <<snap[j]>> ELSE <<>>,
                        IF payment_expired THEN KickSingle(tm) ELSE Skip,
                        payment_expired)

KickAllWithNoUsername ==
    /\ kpc = "idle"
    /\ \E tm \in BOOLEAN, ros \in Rosters, snap \in Snapshots :
          LET no_username_members == GetAllWithNoUsername(snap)
          IN  Enter("KickAllWithNoUsername", Nothing, tm, ros, snap,
                    no_username_members,
                    IF ChatMembersList_Any(no_username_members)
                    THEN KickMultiple(tm, no_username_members) ELSE Skip,
                    no_username_members)

KickSingleIfNoUsername ==
    /\ kpc = "idle"
    /\ \E tm \in BOOLEAN, ros \in Rosters, snap \in Snapshots :
          \E j \in UsersOf(snap) :
              LET no_username == snap[j].user[1].username = Nothing
              IN  Enter("KickSingleIfNoUsername", snap[j].user, tm, ros, snap,
                        IF no_username THEN <<snap[j]>> ELSE <<>>,
                        IF no_username THEN KickSingle(tm) ELSE Skip,
                        no_username)

\* the value of the operation once its removals are over
ValueOf(op, members) == IF op.bulk THEN members ELSE TRUE

\* variant for comparison: the bulk loop without time.sleep
KickUserOkNoSleep ==
    /\ kpc = "kick"
    /\ calls' = Append(calls, Call("KickUser", targets[k].user[1].id, TRUE))
    /\ kicked' = kicked \cup {targets[k].user[1].id}
    /\ IF kop.bulk /\ k < Len(targets)
       THEN kpc' = "kick" /\ k' = k + 1 /\ UNCHANGED kresult
       ELSE /\ kpc' = "returned"
            /\ kresult' = Returned(ValueOf(kop, targets))
            /\ UNCHANGED k
    /\ UNCHANGED <<kop, test_mode, roster, chat, targets>>
    /\ UNCHANGED <<loaderVars, apiVars, dateVars, configVars>>

\* BanHelper.KickUser returns: the member is out of the chat.  In the bulk
\* loop time.sleep comes next; the single kick is over.
KickUserOk ==
    /\ kpc = "kick"
    /\ calls' = Append(calls, Call("KickUser", targets[k].user[1].id, TRUE))
    /\ kicked' = kicked \cup {targets[k].user[1].id}
    /\ IF kop.bulk
       THEN kpc' = "sleep" /\ UNCHANGED kresult
       ELSE kpc' = "returned" /\ kresult' = Returned(ValueOf(kop, targets))
    /\ UNCHANGED <<kop, test_mode, roster, chat, targets, k>>
    /\ UNCHANGED <<loaderVars, apiVars, dateVars, configVars>>

\* variant for comparison: the failure of KickUser caught and the loop going on
KickUserFailsAndGoesOn ==
    /\ kpc = "kick"
    /\ calls' = Append(calls, Call("KickUser", targets[k].user[1].id, FALSE))
    /\ IF kop.bulk
       THEN kpc' = "sleep" /\ UNCHANGED kresult
       ELSE kpc' = "returned" /\ kresult' = Returned(ValueOf(kop, targets))
    /\ UNCHANGED <<kop, test_mode, roster, chat, targets, k, kicked>>
    /\ UNCHANGED <<loaderVars, apiVars, dateVars, configVars>>

\* BanHelper.KickUser raises: nothing catches it on the way to the caller
KickUserFails ==
    /\ kpc = "kick"
    /\ calls' = Append(calls, Call("KickUser", targets[k].user[1].id, FALSE))
    /\ kpc' = "raised"
    /\ UNCHANGED <<kop, test_mode, roster, chat, targets, k, kicked, kresult>>
    /\ UNCHANGED <<loaderVars, apiVars, dateVars, configVars>>

\* time.sleep(SLEEP_TIME_SEC), then the next member or the end of the loop
Sleep ==
    /\ kpc = "sleep"
    /\ calls' = Append(calls, Call("sleep", SLEEP_TIME_MS, TRUE))
    /\ IF k < Len(targets)
       THEN kpc' = "kick" /\ k' = k + 1 /\ UNCHANGED kresult
       ELSE /\ kpc' = "returned"
            /\ kresult' = Returned(ValueOf(kop, targets))
            /\ UNCHANGED k
    /\ UNCHANGED <<kop, test_mode, roster, chat, targets, kicked>>
    /\ UNCHANGED <<loaderVars, apiVars, dateVars, configVars>>

\* the caller has the value or the exception
KickerDone ==
    /\ kpc \in {"returned", "raised"}
    /\ kpc' = "idle" /\ kop' = [name |-> None, bulk |-> FALSE, user |-> Nothing]
    /\ test_mode' = FALSE /\ roster' = <<>>
    /\ chat' = <<>> /\ targets' = <<>> /\ k' = 0 /\ calls' = <<>>
    /\ kicked' = {} /\ kresult' = NoValue
    /\ UNCHANGED <<loaderVars, apiVars, dateVars, configVars>>

KickerStep == KickUserOk \/ KickUserFails \/ Sleep

KickerNext ==
    \/ KickAllWithExpiredPayment
    \/ KickAllWithNoUsername
    \/ KickSingleIfExpiredPayment
    \/ KickSingleIfNoUsername
    \/ KickUserOk
    \/ KickUserFails
    \/ Sleep
    \/ KickerDone

\* the loop is synchronous code: a call that can return or raise does, and
\* a sleep ends
KickerSpec == Init /\ [][KickerNext]_vars /\ WF_vars(KickerStep)

-----------------------------------------------------------------------------
(* The expiration cell alone: a numeric cell and a text cell, each parsed  *)
(* by __AddPayment's two stages.                                           *)

\* the days of the Excel 1900 date system, counted through the months:
\* serial 1 is 1900-01-01, serial 60 the 29 February 1900 that never was,
\* serial 45292 is 2024-01-01
RECURSIVE NthDay(_, _, _)
\* day n (1-based) counted from the first of month m of year y
NthDay(y, m, n) ==
    IF n <= DaysInMonth(y, m) THEN [y |-> y, m |-> m, d |-> n]
    ELSE IF m < 12 THEN NthDay(y, m + 1, n - DaysInMonth(y, m))
    ELSE NthDay(y + 1, 1, n - DaysInMonth(y, m))

Anchor2024 == [serial |-> 45292, y |-> 2024]

ExcelDay(serial) ==
    IF serial \in 1..59 THEN Some(NthDay(1900, 1, serial))
    ELSE IF serial = 0 \/ serial = 60 THEN Nothing
    ELSE IF serial < Anchor2024.serial THEN Some(NthDay(1900, 1, serial - 1))
    ELSE Some(NthDay(Anchor2024.y, 1, serial - Anchor2024.serial + 1))

DigitChar(n) ==
    CASE n = 0 -> "0" [] n = 1 -> "1" [] n = 2 -> "2" [] n = 3 -> "3"
      [] n = 4 -> "4" [] n = 5 -> "5" [] n = 6 -> "6" [] n = 7 -> "7"
      [] n = 8 -> "8" [] n = 9 -> "9"

\* the day written in the configured pattern, DD/MM/YYYY
Rendering(date) ==
    <<DigitChar(date.d \div 10), DigitChar(date.d % 10), "/",
      DigitChar(date.m \div 10), DigitChar(date.m % 10), "/",
      DigitChar(date.y \div 1000), DigitChar((date.y \div 100) % 10),
      DigitChar((date.y \div 10) % 10), DigitChar(date.y % 10)>>

Serials ==
    (0..MaxSerial) \cup {Anchor2024.serial + j : j \in 58..MaxSerial}

NumericCells == {NumCell(n, secs) : n \in Serials, secs \in {0, 43200}}

TextCells ==
    LET days == {ExcelDay(n)[1] : n \in {q \in Serials : ExcelDay(q) # Nothing}}
    IN  {StrCell(Rendering(day)) : day \in days} \cup
        {StrCell(<<" ">> \o Rendering(day) \o <<" ">>) : day \in days} \cup
        {StrCell(Rendering([y |-> 1900, m |-> 2, d |-> 29]))}

DateInit ==
    /\ numCell \in NumericCells /\ strCell \in TextCells
    /\ numRes = Nothing /\ strRes = Nothing

\* __AddPayment parses the numeric cell
ParseNumeric ==
    /\ numRes = Nothing
    /\ numRes' = Some(ParseExpiration(numCell))
    /\ UNCHANGED <<numCell, strCell, strRes>>
    /\ UNCHANGED <<loaderVars, apiVars, kickerVars, configVars>>

\* __AddPayment parses the text cell
ParseText ==
    /\ strRes = Nothing
    /\ strRes' = Some(ParseExpiration(strCell))
    /\ UNCHANGED <<numCell, strCell, numRes>>
    /\ UNCHANGED <<loaderVars, apiVars, kickerVars, configVars>>

DateNext == ParseNumeric \/ ParseText

DateSpecInit ==
    DateInit /\ LoaderInit /\ ApiIdle /\ KickerIdle /\ ConfigIdle

DateSpec == DateSpecInit /\ [][DateNext]_vars

-----------------------------------------------------------------------------
(* The column selectors of PaymentBotConfigCfg.  The value of a selector   *)
(* is a str, here the sequence of its code points, so that the comparisons *)
(* with "A" and "Z" are computed: "A" is <<65>>, "Z" <<90>>, "a" <<97>>.   *)

COL_MIN_VAL == <<65>>
COL_MAX_VAL == <<90>>

RECURSIVE StrLess(_, _)
\* a < b on str: the first differing code point decides, a prefix is less
StrLess(a, b) ==
    IF b = <<>> THEN FALSE
    ELSE IF a = <<>> THEN TRUE
    ELSE IF Head(a) # Head(b) THEN Head(a) < Head(b)
    ELSE StrLess(Tail(a), Tail(b))

\* "conv_fct": lambda val: val.upper(), on the letters a..z
Upper(val) ==
    [j \in 1..Len(val) |-> IF val[j] \in 97..122 THEN val[j] - 32 ELSE val[j]]

\* "def_val" of the three entries: "A", "B", "C"
DefVal(t) ==
    CASE t = "PAYMENT_EMAIL_COL" -> <<65>>
      [] t = "PAYMENT_USERNAME_COL" -> <<66>>
      [] t = "PAYMENT_EXPIRATION_COL" -> <<67>>

\* Config.IsValueSet and Config.GetValue
IsValueSet(cfg, t) == cfg[t] # Nothing
GetValue(cfg, t) == cfg[t][1]

RECURSIVE ColIdxsFrom(_, _)
\* AreColumnIndexesValid, "Get other indexes that are already available"
ColIdxsFrom(cfg, j) ==
    IF j > Len(ColTypes) THEN <<>>
    ELSE (IF IsValueSet(cfg, ColTypes[j])
          THEN <<GetValue(cfg, ColTypes[j])>> ELSE <<>>)
         \o ColIdxsFrom(cfg, j + 1)

\* variant for comparison: with two selectors set, only the first is compared
AreColumnIndexesValidFirstOnly(cfg, curr_col) ==
    IF \/ Len(curr_col) # 1
       \/ StrLess(curr_col, COL_MIN_VAL)
       \/ StrLess(COL_MAX_VAL, curr_col)
    THEN FALSE
    ELSE LET col_idxs == ColIdxsFrom(cfg, 1)
         IN  IF Len(col_idxs) = 0 THEN TRUE
             ELSE IF Len(col_idxs) \in 1..2 THEN curr_col # col_idxs[1]
             ELSE FALSE

\* _ConfigDataUtils.AreColumnIndexesValid
AreColumnIndexesValid(cfg, curr_col) ==
    IF \/ Len(curr_col) # 1
       \/ StrLess(curr_col, COL_MIN_VAL)
       \/ StrLess(COL_MAX_VAL, curr_col)
    THEN FALSE
    ELSE LET col_idxs == ColIdxsFrom(cfg, 1)
         IN  IF Len(col_idxs) = 0 THEN TRUE
             ELSE IF Len(col_idxs) = 1 THEN curr_col # col_idxs[1]
             ELSE IF Len(col_idxs) = 2
             THEN /\ curr_col # col_idxs[1]
                  /\ curr_col # col_idxs[2]
                  /\ col_idxs[1] # col_idxs[2]
             ELSE FALSE

\* what the configuration file may hold for a selector: nothing (the
\* default is taken), or "", "A", "B", "C", "Z", "@", "[", "a", "z", "AB", "1"
RawSelectors ==
    {Nothing} \cup
    {Some(v) : v \in {<<>>, <<65>>, <<66>>, <<67>>, <<90>>, <<64>>, <<91>>,
                      <<97>>, <<122>>, <<65, 66>>, <<49>>}}

\* the value handed to "valid_if": the default, or the file's value converted
FieldValue(t, raw) == IF raw = Nothing THEN DefVal(t) ELSE Upper(raw[1])

\* the configuration loader on one selector not yet set: the value is
\* converted, validated with "valid_if", and set when valid; an invalid value
\* ends the loading with an error
SetFieldValue(t, raw) ==
    /\ cfgpc = "loading" /\ ~IsValueSet(config, t)
    /\ LET val == FieldValue(t, raw)
           res == AreColumnIndexesValid(config, val)
       IN  /\ lastCheck' = Some([type |-> t, val |-> val, before |-> config,
                                  res |-> res])
           /\ IF res
              THEN /\ config' = [config EXCEPT ![t] = Some(val)]
                   /\ cfgpc' = IF \A u \in ColTypeSet : IsValueSet(config', u)
                                THEN "loaded" ELSE "loading"
              ELSE cfgpc' = "rejected" /\ UNCHANGED config
    /\ UNCHANGED <<loaderVars, apiVars, kickerVars, dateVars>>

\* the program starts again with another configuration file
ConfigRestart ==
    /\ cfgpc \in {"loaded", "rejected"}
    /\ cfgpc' = "loading" /\ config' = EmptyConfig /\ lastCheck' = Nothing
    /\ UNCHANGED <<loaderVars, apiVars, kickerVars, dateVars>>

ConfigNext ==
    \/ \E t \in ColTypeSet, raw \in RawSelectors : SetFieldValue(t, raw)
    \/ ConfigRestart

ConfigSpec == Init /\ [][ConfigNext]_vars

-----------------------------------------------------------------------------
(* Claims on PaymentsExcelLoader, under Spec                               *)

Username(row) == Strip(Str(row.username))
Email(row) == Strip(Str(row.email))
NonBlank(row) == Username(row) # <<>>
Parseable(row) == NonBlank(row) /\ ParseExpiration(row.expiration).exc = None
IsInvalidDateRow(row) ==
    /\ NonBlank(row)
    /\ row.expiration.t = "str"
    /\ Strptime(Strip(row.expiration.s)).exc = "ValueError"
RaisingRow(row) ==
    NonBlank(row) /\ XldateAsDatetime(row.expiration).exc = "OverflowError"

EarlierSame(r) ==
    \E q \in 1..(r - 1) :
        Parseable(rows[q]) /\ Username(rows[q]) = Username(rows[r])
FirstOccurrence(r) == Parseable(rows[r]) /\ ~EarlierSame(r)
LaterOccurrence(r) == Parseable(rows[r]) /\ EarlierSame(r)

DuplicateEntriesFor(r) ==
    {j \in 1..Len(payments_data_err) :
        /\ payments_data_err[j].kind = DUPLICATED_USERNAME_ERR
        /\ payments_data_err[j].row = RowNumber(r)
        /\ payments_data_err[j].username = Username(rows[r])}

\* C1: no two entries of the roster share a username; the roster holds the
\* record of the first parseable row of each username, with that row's
\* email and expiration, and every later parseable row of the username has
\* exactly one DuplicateUsername entry naming it; LoadAll returns that roster.
C1_Uniqueness ==
    /\ \A j, l \in 1..Len(payments_data) :
          j # l => payments_data[j].username # payments_data[l].username
    /\ \A r \in 1..Len(rows) :
          /\ FirstOccurrence(r) =>
                \E j \in 1..Len(payments_data) :
                    payments_data[j] =
                        SinglePayment(Email(rows[r]), Username(rows[r]),
                                      ParseExpiration(rows[r].expiration).dt)
          /\ LaterOccurrence(r) => Cardinality(DuplicateEntriesFor(r)) = 1
    /\ (pc = "returned" /\ api.name = "LoadAll") =>
          result = Returned(payments_data)

C1_Witness ==
    /\ pc = "returned" /\ api.name = "LoadAll"
    /\ Len(rows) = 2 /\ LaterOccurrence(2)
    /\ Email(rows[1]) # Email(rows[2])
    /\ rows[1].expiration # rows[2].expiration
    /\ Len(result[1]) = 1 /\ Len(payments_data_err) = 1

\* the entry e is about the r-th non-header row: that row exists, has the
\* entry's username and failed the way the entry says
EntryIsAbout(e, r) ==
    /\ r \in 1..Len(rows)
    /\ e.username = Username(rows[r])
    /\ e.kind = INVALID_DATE_ERR =>
          IsInvalidDateRow(rows[r]) /\ e.raw = Some(rows[r].expiration)
    /\ e.kind = DUPLICATED_USERNAME_ERR => LaterOccurrence(r)

\* C5 as claimed: the entry of the k-th non-header row carries row number k.
C5_HeaderExcluded ==
    \A j \in 1..Len(payments_data_err) :
        EntryIsAbout(payments_data_err[j], payments_data_err[j].row)

\* C5 amended: the entry of the k-th non-header row carries row number
\* k + 1, the 1-based row of the sheet with the header counted as row 1.
C5_SheetRow ==
    \A j \in 1..Len(payments_data_err) :
        EntryIsAbout(payments_data_err[j], payments_data_err[j].row - 1)

C5_Witness ==
    /\ pc = "returned" /\ Len(rows) = 2 /\ Len(payments_data_err) = 2
    /\ payments_data_err[1].row = 2 /\ payments_data_err[2].row = 3

LastRow(rs) == rs[Len(rs)]
RowRead == pc = "loading" /\ Len(rows') = Len(rows) + 1

\* C6: reading a row with a non-blank username and an expiration that is
\* text not matching the format leaves the roster as it was, appends exactly
\* one InvalidDate entry with the row, the username and the raw cell, and
\* the loop goes on to the next row.
C6_InvalidDate ==
    [][(RowRead /\ IsInvalidDateRow(LastRow(rows'))) =>
          /\ payments_data' = payments_data
          /\ payments_data_err' =
                Append(payments_data_err,
                       [kind |-> INVALID_DATE_ERR, row |-> RowNumber(i),
                        username |-> Username(LastRow(rows')),
                        raw |-> Some(LastRow(rows').expiration)])
          /\ pc' = "loading" /\ i' = i + 1]_vars

C6_Witness ==
    /\ pc = "returned" /\ api.name = "CheckForErrors"
    /\ Len(rows) = 2 /\ IsInvalidDateRow(rows[1]) /\ Parseable(rows[2])
    /\ Len(result[1]) = 1 /\ result[1][1].kind = INVALID_DATE_ERR
    /\ result[1][1].raw = Some(StrCell(InvalidText))
    /\ Len(payments_data) = 1

NoEntryRow(e) == [kind |-> e.kind, username |-> e.username, raw |-> e.raw]
NoEntryRows(err) == [j \in 1..Len(err) |-> NoEntryRow(err[j])]
WithoutBlankRows ==
    LoadSheet(<<Header>> \o SelectSeq(rows, NonBlank), <<>>)

\* C8: reading a row whose username is empty after strip() changes neither
\* the roster nor the errors, whatever its other cells, and the loop goes on;
\* roster and errors (row numbers aside) are those of the same rows with
\* the blank ones taken out.
C8_BlankUsername ==
    /\ [][(RowRead /\ ~NonBlank(LastRow(rows'))) =>
            /\ payments_data' = payments_data
            /\ payments_data_err' = payments_data_err
            /\ pc' = "loading" /\ i' = i + 1]_vars
    /\ [](pc \in {"loading", "returned"} =>
            /\ payments_data = WithoutBlankRows.data
            /\ NoEntryRows(payments_data_err) =
                  NoEntryRows(WithoutBlankRows.err))

C8_Witness ==
    /\ pc = "returned" /\ Len(rows) = 2
    /\ ~NonBlank(rows[1]) /\ rows[1].username = StrCell(<<" ">>)
    /\ rows[1].expiration = StrCell(InvalidText)
    /\ Parseable(rows[2])
    /\ Len(payments_data) = 1 /\ payments_data_err = <<>>

\* C9: when the workbook cannot be opened, or a row raises while loading,
\* the call ends with the exception: it is logged, the caller gets no value,
\* and the workbook was opened once; a value reaches the caller only from a
\* load that read every row of the sheet.
C9_NoPartialRoster ==
    /\ opens <= 1
    /\ source = Unavailable => pc = "raised"
    /\ (rows # <<>> /\ RaisingRow(LastRow(rows))) => pc = "raised"
    /\ pc = "raised" =>
          /\ result = NoValue
          /\ logger[Len(logger)] = "exception"
          /\ opens = 1
    /\ result # NoValue =>
          /\ pc = "returned"
          /\ \A j \in 1..Len(logger) : logger[j] # "exception"
          /\ Len(rows) = (IF nrows = 0 THEN 0 ELSE nrows - 1)

C9_Witness ==
    /\ pc = "raised" /\ api.name = "LoadAll"
    /\ Len(rows) = 2 /\ Parseable(rows[1]) /\ RaisingRow(rows[2])
    /\ Len(payments_data) = 1 /\ result = NoValue

C9_WitnessOpen == pc = "raised" /\ source = Unavailable /\ result = NoValue

\* the rows whose iteration of the loop is over: all the rows read, but the
\* last one when it raised
RowsProcessed ==
    Len(rows) - (IF pc = "raised" /\ rows # <<>> THEN 1 ELSE 0)

BlankRows == {r \in 1..RowsProcessed : ~NonBlank(rows[r])}

\* the records of the roster that row r put there
RecordsOf(r) ==
    {j \in 1..Len(payments_data) :
        /\ FirstOccurrence(r)
        /\ payments_data[j] =
              SinglePayment(Email(rows[r]), Username(rows[r]),
                            ParseExpiration(rows[r].expiration).dt)}

\* the error entries that name row r
ErrorsOf(r) ==
    {j \in 1..Len(payments_data_err) :
        payments_data_err[j].row = RowNumber(r)}

\* C14: during a load and at its end every row whose iteration is over was
\* skipped as blank, or put one record in the roster, or appended one error
\* entry, and only one of the three; the sizes of roster, errors and blank
\* rows add up to the number of those rows; the error entries are in
\* increasing row order and name rows that were read.
C14_OneOutcomePerRow ==
    pc \in {"loading", "returned", "raised"} =>
        /\ \A r \in 1..RowsProcessed :
              (IF r \in BlankRows THEN 1 ELSE 0)
                  + Cardinality(RecordsOf(r)) + Cardinality(ErrorsOf(r)) = 1
        /\ Len(payments_data) + Len(payments_data_err)
              + Cardinality(BlankRows) = RowsProcessed
        /\ \A a, b \in 1..Len(payments_data_err) :
              a < b => payments_data_err[a].row < payments_data_err[b].row
        /\ \A j \in 1..Len(payments_data_err) :
              \E r \in 1..RowsProcessed : j \in ErrorsOf(r)
        /\ (pc = "raised" /\ rows # <<>>) => RaisingRow(LastRow(rows))

C14_Witness ==
    /\ pc = "returned" /\ Len(rows) = 2
    /\ BlankRows = {1} /\ IsInvalidDateRow(rows[2])
    /\ payments_data = <<>> /\ Len(payments_data_err) = 1
    /\ payments_data_err[1].row = 3

C14_WitnessTwoErrors ==
    /\ pc = "returned" /\ Len(rows) = 2
    /\ IsInvalidDateRow(rows[1]) /\ IsInvalidDateRow(rows[2])
    /\ Username(rows[1]) = Username(rows[2])
    /\ Len(payments_data_err) = 2 /\ payments_data = <<>>

C14_WitnessRaised ==
    /\ pc = "raised" /\ Len(rows) = 2 /\ RowsProcessed = 1
    /\ Len(payments_data) = 1 /\ payments_data_err = <<>>


-----------------------------------------------------------------------------
(* Claims on the loader across calls, under ApiSpec                        *)

PairOfOneParse(src) ==
    /\ src # Nothing
    /\ obsRoster = Returned(LoadSheet(src[1].sheet, <<>>).data)
    /\ obsErrors = Returned(LoadSheet(src[1].sheet, <<>>).err)

\* C3 as claimed: whatever the file did between the calls, the roster the
\* caller holds from LoadAll and the errors it holds from CheckForErrors are
\* the two halves of one parse of the file.
C3_OneParsePass ==
    (obsRoster # NoValue /\ obsErrors # NoValue) =>
        (PairOfOneParse(rosterSrc) \/ PairOfOneParse(errorsSrc))

\* What holds of the code instead: each call parses the file as it is at the
\* call; the roster and the errors are the two halves of one parse when the
\* file had the same content at the LoadAll call and at the CheckForErrors
\* call.
C3_OneParsePassSameFile ==
    (obsRoster # NoValue /\ obsErrors # NoValue /\ rosterSrc = errorsSrc) =>
        PairOfOneParse(rosterSrc)

C3_Witness ==
    /\ obsRoster # NoValue /\ obsErrors # NoValue
    /\ rosterSrc = errorsSrc /\ Len(rosterSrc[1].sheet) = 3
    /\ Len(obsRoster[1]) = 1 /\ Len(obsErrors[1]) = 1
    /\ file # rosterSrc[1]


-----------------------------------------------------------------------------
(* Claims on MembersKicker, under KickerSpec                               *)

\* what each operation is to return for the chat and the roster it was
\* called with, stated on the members themselves
ExpectedValue ==
    LET NoRecordAfterToday(u) ==
            \A j \in 1..Len(roster) :
                roster[j].username = u => roster[j].expiration < Today
        ExpiredUser(user) ==
            user.username = Nothing \/ NoRecordAfterToday(user.username[1])
        ExpiredMember(m) ==
            m.valid /\ m.user # Nothing /\ ExpiredUser(m.user[1])
        NamelessMember(m) ==
            m.valid /\ m.user # Nothing /\ m.user[1].username = Nothing
    IN  CASE kop.name = "KickAllWithExpiredPayment" ->
                SelectSeq(chat, ExpiredMember)
          [] kop.name = "KickAllWithNoUsername" ->
                SelectSeq(chat, NamelessMember)
          [] kop.name = "KickSingleIfExpiredPayment" ->
                ExpiredUser(kop.user[1])
          [] kop.name = "KickSingleIfNoUsername" ->
                kop.user[1].username = Nothing

\* C2: with test mode on no kick operation calls BanHelper.KickUser, the
\* chat loses nobody and the operation cannot raise; in either mode the
\* value returned is the one the chat and the roster determine, so it is
\* the same with test mode on and off.
C2_TestModeNoOp ==
    /\ test_mode =>
          /\ \A j \in 1..Len(calls) : calls[j].fn # "KickUser"
          /\ kicked = {}
          /\ kpc \in {"idle", "returned"}
    /\ kpc = "returned" => kresult = Returned(ExpectedValue)

C2_Witness ==
    /\ test_mode /\ kpc = "returned"
    /\ kop.name = "KickAllWithExpiredPayment"
    /\ Len(kresult[1]) = 2 /\ Len(chat) = 3
    /\ calls = <<Call("info", 0, TRUE)>>

C2_WitnessSingle ==
    /\ test_mode /\ kpc = "returned"
    /\ kop.name = "KickSingleIfNoUsername"
    /\ kresult = Returned(TRUE) /\ kicked = {}

BulkRemoval == kop.bulk /\ ~test_mode /\ kpc # "idle" /\ targets # <<>>

\* the calls made so far are KickUser on targets[1], sleep, KickUser on
\* targets[2], sleep, ... in this order
CallsAlternate ==
    \A j \in 1..Len(calls) :
        IF j % 2 = 1
        THEN /\ calls[j].fn = "KickUser"
             /\ calls[j].arg = targets[(j + 1) \div 2].user[1].id
        ELSE calls[j] = Call("sleep", SLEEP_TIME_MS, TRUE)

InSnapshotOrder ==
    \A a, b \in 1..Len(targets) :
        a < b => targets[a].user[1].id < targets[b].user[1].id

\* C4: in a bulk removal with test mode off the calls are KickUser on the
\* first member, sleep, KickUser on the second, sleep, and so on in the
\* order of the snapshot, one at a time; when no call failed the operation
\* returns after exactly one KickUser per member; and the loop ends.
C4_Throttling ==
    /\ [](BulkRemoval =>
            /\ CallsAlternate
            /\ InSnapshotOrder
            /\ kpc = "kick" => Len(calls) = 2 * (k - 1)
            /\ kpc = "sleep" => Len(calls) = 2 * k - 1
            /\ kpc = "returned" =>
                  /\ Len(calls) = 2 * Len(targets)
                  /\ \A j \in 1..Len(calls) : calls[j].ok
                  /\ kicked = {targets[q].user[1].id : q \in 1..Len(targets)}
                  /\ kresult = Returned(targets))
    /\ (BulkRemoval /\ kpc \in {"kick", "sleep"})
          ~> (kpc \in {"returned", "raised"})

C4_Witness ==
    /\ BulkRemoval /\ kpc = "returned"
    /\ Len(targets) = 3 /\ Len(calls) = 6
    /\ Cardinality(kicked) = 3

\* C7: a KickUser call that fails is the last call of the operation, which
\* ends with the exception and no value; in a bulk removal the members
\* before the failed one stay removed and no member after it is touched.
C7_FailureAborts ==
    /\ [](\A j \in 1..Len(calls) :
            (calls[j].fn = "KickUser" /\ ~calls[j].ok) =>
                j = Len(calls) /\ kpc = "raised")
    /\ [](kpc = "raised" =>
            /\ kresult = NoValue
            /\ ~calls[Len(calls)].ok
            /\ kop.bulk =>
                  /\ CallsAlternate
                  /\ Len(calls) = 2 * k - 1
                  /\ kicked = {targets[q].user[1].id : q \in 1..(k - 1)})
    /\ [][kpc = "raised" => kpc' = "idle"]_vars

C7_Witness ==
    /\ kpc = "raised" /\ kop.bulk
    /\ Len(targets) = 3 /\ k = 2
    /\ Cardinality(kicked) = 1 /\ Len(calls) = 3
    /\ kresult = NoValue

SingleKick ==
    kop.name \in {"KickSingleIfExpiredPayment", "KickSingleIfNoUsername"}

\* what the operation asks about the user it was given
SinglePredicate ==
    IF kop.name = "KickSingleIfExpiredPayment"
    THEN IsSingleMemberExpired(roster, kop.user[1])
    ELSE kop.user[1].username = Nothing

KickUserCalls == {j \in 1..Len(calls) : calls[j].fn = "KickUser"}

\* C11: a single kick returns what the payment getter reports of the user
\* (KickSingleIfExpiredPayment) or whether the user has no username
\* (KickSingleIfNoUsername); with test mode off it has made exactly one
\* KickUser call, on that user, when it returns true, and no call when it
\* returns false; it never makes more than one, and it raises only when that
\* one call failed.
C11_SingleKick ==
    SingleKick =>
        /\ Cardinality(KickUserCalls) <= 1
        /\ kpc = "returned" =>
              /\ kresult = Returned(SinglePredicate)
              /\ (~test_mode /\ SinglePredicate) =>
                    calls = <<Call("KickUser", kop.user[1].id, TRUE)>>
              /\ ~SinglePredicate => calls = <<>>
        /\ ~SinglePredicate => kpc = "returned"
        /\ kpc = "kick" => (SinglePredicate /\ ~test_mode /\ calls = <<>>)
        /\ kpc = "raised" =>
              /\ SinglePredicate /\ ~test_mode
              /\ calls = <<Call("KickUser", kop.user[1].id, FALSE)>>

C11_Witness ==
    /\ kop.name = "KickSingleIfExpiredPayment" /\ kpc = "returned"
    /\ ~test_mode /\ kresult = Returned(TRUE)
    /\ kop.user[1].username # Nothing /\ roster # <<>>
    /\ calls = <<Call("KickUser", kop.user[1].id, TRUE)>>
    /\ kicked = {kop.user[1].id}

C11_WitnessFalse ==
    /\ kop.name = "KickSingleIfNoUsername" /\ kpc = "returned"
    /\ ~test_mode /\ kresult = Returned(FALSE) /\ calls = <<>>

\* the member of the chat the single kick was given the user of
MemberOfUser == chat[CHOOSE j \in 1..Len(chat) : chat[j].user = kop.user]

\* the bulk path on the same chat would select that member
BulkSelectsUser ==
    \E j \in 1..Len(GetAllWithNoUsername(chat)) :
        GetAllWithNoUsername(chat)[j] = MemberOfUser

SingleNoUsernameKicks ==
    \/ kpc \in {"kick", "raised"}
    \/ kpc = "returned" /\ kresult = Returned(TRUE)

\* C13 as claimed: KickSingleIfNoUsername returns true, and goes for the
\* removal, exactly for the users that GetAllWithNoUsername selects in the
\* chat: the valid members with no username.
C13_SingleMatchesBulk ==
    (kop.name = "KickSingleIfNoUsername" /\ kpc # "idle") =>
        (SingleNoUsernameKicks <=> BulkSelectsUser)

\* What holds of the code instead: the two paths agree on the users whose
\* member is valid; the single path looks at the username alone.
C13_SingleMatchesBulkIfValid ==
    (kop.name = "KickSingleIfNoUsername" /\ kpc # "idle") =>
        /\ SingleNoUsernameKicks <=> (kop.user[1].username = Nothing)
        /\ IsValidMember(MemberOfUser) =>
              (SingleNoUsernameKicks <=> BulkSelectsUser)

C13_Witness ==
    /\ kop.name = "KickSingleIfNoUsername" /\ kpc = "returned"
    /\ ~test_mode /\ kresult = Returned(TRUE)
    /\ ~IsValidMember(MemberOfUser) /\ ~BulkSelectsUser
    /\ kicked = {kop.user[1].id}


-----------------------------------------------------------------------------
(* Claims on the expiration cell, under DateSpec                           *)

\* the numeric cell and the text cell denote the same day: the text is that
\* day written in the pattern, spaces around it aside
SameDay(num, text) ==
    /\ ExcelDay(num.days) # Nothing
    /\ Strip(text.s) = Rendering(ExcelDay(num.days)[1])

\* C10: a numeric cell is settled by the serial stage and a text cell by
\* the format stage; when the two cells denote the same day both parse, and
\* to the same calendar date, that day.
C10_DateRoundTrip ==
    /\ numRes # Nothing => numRes[1].stage = "xldate"
    /\ strRes # Nothing => strRes[1].stage = "strptime"
    /\ (numRes # Nothing /\ strRes # Nothing /\ SameDay(numCell, strCell)) =>
          /\ numRes[1].exc = None /\ strRes[1].exc = None
          /\ numRes[1].dt.date = strRes[1].dt.date
          /\ numRes[1].dt.date = ExcelDay(numCell.days)[1]

C10_Witness ==
    /\ numRes # Nothing /\ strRes # Nothing /\ SameDay(numCell, strCell)
    /\ numCell = NumCell(61, 43200)
    /\ strCell = StrCell(<<" ", "0", "1", "/", "0", "3", "/", "1", "9", "0",
                           "0", " ">>)
    /\ numRes[1].dt.date = [y |-> 1900, m |-> 3, d |-> 1]
    /\ numRes[1].dt.secs # strRes[1].dt.secs

-----------------------------------------------------------------------------
(* Claims on the column selectors, under ConfigSpec                        *)

IsSingleLetter(v) == Len(v) = 1 /\ v[1] \in 65..90

SetSelectors(cfg) == {t \in ColTypeSet : cfg[t] # Nothing}

\* C12: whatever the order in which the three selectors are validated and
\* set, AreColumnIndexesValid is true of a value exactly when it is a single
\* letter A..Z different from every selector already set; so the selectors
\* set are single letters A..Z, pairwise distinct, and a configuration is
\* loaded only with the three of them set.
C12_ColumnSelectors ==
    /\ \A t \in SetSelectors(config) : IsSingleLetter(config[t][1])
    /\ \A t, u \in SetSelectors(config) : t # u => config[t] # config[u]
    /\ cfgpc = "loaded" => SetSelectors(config) = ColTypeSet
    /\ lastCheck # Nothing =>
          LET c == lastCheck[1]
          IN  /\ c.res = (/\ IsSingleLetter(c.val)
                          /\ \A t \in SetSelectors(c.before) :
                                c.before[t][1] # c.val)
              /\ c.res = (cfgpc # "rejected")
              /\ c.res => config = [c.before EXCEPT ![c.type] = Some(c.val)]
              /\ ~c.res => config = c.before

\* the email selector is validated last, after expiration and username
C12_Witness ==
    /\ cfgpc = "loaded" /\ lastCheck # Nothing
    /\ lastCheck[1].type = "PAYMENT_EMAIL_COL" /\ lastCheck[1].res
    /\ config["PAYMENT_EMAIL_COL"] = Some(<<90>>)
    /\ config["PAYMENT_USERNAME_COL"] = Some(<<65>>)
    /\ config["PAYMENT_EXPIRATION_COL"] = Some(<<67>>)

\* a third selector equal to the second one set is rejected
C12_WitnessRejected ==
    /\ cfgpc = "rejected" /\ lastCheck # Nothing
    /\ Cardinality(SetSelectors(config)) = 2
    /\ IsSingleLetter(lastCheck[1].val)
    /\ lastCheck[1].val = ColIdxsFrom(config, 1)[2]

=============================================================================
